---- MODULE Spec2Model ----
(***************************************************************************)
(* KafkaInput (easy_rec/python/input/kafka_input.py): partition            *)
(* assignment, start-offset resolution, the per-task offset tracker, and   *)
(* restore of the offset sidecar, as a state machine.                      *)
(*                                                                         *)
(* Python dicts are functions with a finite domain; the empty dict is the  *)
(* empty function << >>.  Python str values that the code parses are       *)
(* sequences of one-character strings, so that split(':'), int() and the   *)
(* JSON key stringification are computed, not assumed.                     *)
(***************************************************************************)
EXTENDS Integers, Sequences, FiniteSets, TLC

\* ------------------------------------------------------------------ bounds
MaxPartitions == 4
MaxTasks == 4
MaxStreamPartitions == 2
MaxStreamTasks == 2
MaxOffset == 2
MaxBatch == 2
MaxRestarts == 1
MaxParallelCalls == 2
PrefetchSize == 1
MaxSavedPartition == 10

\* ------------------------------------------------------------ Python values
EmptyDict == << >>

\* dict.get(k, default)
Get(d, k, default) == IF k \in DOMAIN d THEN d[k] ELSE default

\* d[k] = v
Put(d, k, v) == [x \in (DOMAIN d) \cup {k} |-> IF x = k THEN v ELSE d[x]]

Max2(a, b) == IF a >= b THEN a ELSE b

SetMax(S) == CHOOSE m \in S : \A x \in S : x <= m
SetMin(S) == CHOOSE m \in S : \A x \in S : m <= x

Digits == <<"0", "1", "2", "3", "4", "5", "6", "7", "8", "9">>

IsDigit(c) == \E i \in 1..10 : Digits[i] = c
DigitVal(c) == (CHOOSE i \in 1..10 : Digits[i] = c) - 1

\* str(n) / '%d' % n for n >= 0: the decimal digits of n
RECURSIVE Str(_)
Str(n) == IF n < 10 THEN <<Digits[n + 1]>>
          ELSE Str(n \div 10) \o <<Digits[(n % 10) + 1]>>

RECURSIVE DigitsValue(_)
DigitsValue(s) == IF Len(s) = 0 THEN 0
                  ELSE 10 * DigitsValue(SubSeq(s, 1, Len(s) - 1)) + DigitVal(s[Len(s)])

\* a conversion that reads the first digit only
PyInt_FirstDigit(s) ==
  IF Len(s) > 0 /\ \A i \in 1..Len(s) : IsDigit(s[i])
  THEN [ok |-> TRUE, val |-> DigitVal(s[1])]
  ELSE [ok |-> FALSE, val |-> 0]

\* int(s): the value of a non-empty run of decimal digits; anything else
\* raises ValueError (ok = FALSE)
PyInt(s) == IF Len(s) > 0 /\ \A i \in 1..Len(s) : IsDigit(s[i])
            THEN [ok |-> TRUE, val |-> DigitsValue(s)]
            ELSE [ok |-> FALSE, val |-> 0]

\* s.split(sep): the segments of s between occurrences of the character sep
RECURSIVE Split(_, _)
Split(s, sep) ==
  IF \A i \in 1..Len(s) : s[i] # sep THEN <<s>>
  ELSE LET i == CHOOSE j \in 1..Len(s) :
                  s[j] = sep /\ \A h \in 1..(j - 1) : s[h] # sep
       IN <<SubSeq(s, 1, i - 1)>> \o Split(SubSeq(s, i + 1, Len(s)), sep)

\* json.dumps(d) followed by json.load: an int-keyed dict becomes an object
\* whose keys are the decimal strings of the ints
JsonDumps(d) == [k \in {Str(p) : p \in DOMAIN d} |->
                   d[CHOOSE p \in DOMAIN d : Str(p) = k]]

\* --------------------------------------------------------------- job config
TRAIN == "train"
EVAL == "eval"
PREDICT == "infer"
ModeKeys == {TRAIN, EVAL, PREDICT}

VARIABLES
  _num_partition,     \* len(consumer.partitions_for_topic(topic))
  _task_num,          \* number of worker tasks of the job
  chief_redundant,    \* data_config.chief_redundant
  _mode,              \* tf.estimator.ModeKeys of the input
  job,                \* per task index: the outcome of its _get_topics
  _task_index,        \* task index of the input object under study
  offset_info,        \* kafka_config.offset_info, as json.loads reads it
  part_offsets,       \* what consumer.offsets_for_times answers
  sidecar,            \* the file checkpoint_path + '.offset'
  pc,                 \* where the input object is in its life
  _offset_dict,       \* start offset per partition
  _task_offset_dict,  \* the tracker: highest offset seen per partition
  task_topics,        \* the list _get_topics returned to _build
  restored,           \* restore has been called on the object
  num_parallel_calls, \* data_config.num_parallel_calls: the decode workers
  wk,                 \* per decode worker: its place in _parse_offset
  high,               \* per partition: the highest offset handed to the tracker
  batch_size,         \* data_config.batch_size
  next_read,          \* per assigned partition: the offset KafkaDataset reads next
  cur_batch,          \* the records of the batch being decoded
  prefetch1,          \* the buffer between decode and _preprocess
  prefetch2,          \* the buffer between _preprocess and the training loop
  undelivered,        \* per partition: its earliest record not yet delivered
  ckpt_undelivered,   \* undelivered, as it was when the checkpoint was taken
  restarts            \* how many times the process has been restarted

\* ------------------------------------------------------- KafkaInput._get_topics
\* the shift without the clamp at 0
EffTaskIndex_NoClamp(task_index, redundant, mode) ==
  IF redundant /\ mode = TRAIN THEN task_index - 1 ELSE task_index

\* task_index = max(task_index - 1, 0) under chief_redundant in TRAIN
EffTaskIndex(task_index, redundant, mode) ==
  IF redundant /\ mode = TRAIN THEN Max2(task_index - 1, 0) ELSE task_index

\* the coordinator taken out whatever the mode
EffTaskNum_AnyMode(task_num, redundant, mode) ==
  IF redundant THEN Max2(task_num - 1, 1) ELSE task_num

\* the task count without the coordinator taken out
EffTaskNum_Full(task_num, redundant, mode) == task_num

\* task_num = max(task_num - 1, 1) under chief_redundant in TRAIN
EffTaskNum(task_num, redundant, mode) ==
  IF redundant /\ mode = TRAIN THEN Max2(task_num - 1, 1) ELSE task_num

\* a block split instead of the round-robin one
Owns_Block(part_id, task_num, task_index) == (part_id \div task_num) = task_index

\* (part_id % task_num) == task_index
Owns(part_id, task_num, task_index) == (part_id % task_num) = task_index

\* the loop over range(n): the list of (part_id, offset) appended to topics
RECURSIVE TopicsLoop(_, _, _, _)
TopicsLoop(n, task_num, task_index, offset_dict) ==
  IF n = 0 THEN << >>
  ELSE LET part_id == n - 1
           rest == TopicsLoop(n - 1, task_num, task_index, offset_dict)
       IN IF Owns(part_id, task_num, task_index)
          THEN Append(rest, [part |-> part_id,
                             offset |-> Get(offset_dict, part_id, 0)])
          ELSE rest

\* the assert compiled away
TopicsAssert_Disabled(topics) == TRUE

\* assert len(topics) > 0
TopicsAssert(topics) == Len(topics) > 0

\* a _get_topics that leaves the tracker empty
GetTopics_Unseeded(num_partition, task_num, task_index, redundant, mode, offset_dict) ==
  LET tn == EffTaskNum(task_num, redundant, mode)
      ti == EffTaskIndex(task_index, redundant, mode)
      topics == TopicsLoop(num_partition, tn, ti, offset_dict)
  IN [topics |-> topics,
      task_offset_dict |-> EmptyDict,
      raised |-> ~TopicsAssert(topics)]

\* the outcome of _get_topics: the topics list, the new _task_offset_dict, and
\* whether the final assert raised
GetTopics(num_partition, task_num, task_index, redundant, mode, offset_dict) ==
  LET tn == EffTaskNum(task_num, redundant, mode)
      ti == EffTaskIndex(task_index, redundant, mode)
      topics == TopicsLoop(num_partition, tn, ti, offset_dict)
  IN [topics |-> topics,
      task_offset_dict |->
        [p \in {topics[i].part : i \in 1..Len(topics)} |->
           Get(offset_dict, p, 0)],
      raised |-> ~TopicsAssert(topics)]

\* the partition ids of a topics list
Parts(topics) == {topics[i].part : i \in 1..Len(topics)}

Pending == [topics |-> << >>, task_offset_dict |-> EmptyDict, raised |-> FALSE,
            done |-> FALSE]

Ran(r) == [topics |-> r.topics, task_offset_dict |-> r.task_offset_dict,
           raised |-> r.raised, done |-> TRUE]

jobVars == <<_num_partition, _task_num, chief_redundant, _mode>>
envVars == <<_task_index, offset_info, part_offsets>>
objVars == <<pc, _offset_dict, _task_offset_dict, task_topics, restored>>

\* ------------------------------------------------------- KafkaInput.__init__
\* offset_info: not set, or the JSON object of the config string
NoInfo == [given |-> FALSE, json |-> EmptyDict]
TimestampKey == <<"t", "i", "m", "e", "s", "t", "a", "m", "p">>

\* 'timestamp' in self._kafka.offset_info
IsTimestampInfo(info) == TimestampKey \in DOMAIN info.json

\* offsets_for_times maps a partition to an OffsetAndTimestamp, or to None when
\* the broker has no offset at or after the timestamp
NoneValue == [isNone |-> TRUE, offset |-> 0]
OffsetAndTimestamp(o) == [isNone |-> FALSE, offset |-> o]

\* a lookup that leaves out the partitions the broker has no offset for
TimestampLoop_SkipNone(parts, reply, d) ==
  [raised |-> FALSE,
   offset_dict |-> [p \in {q \in parts : ~reply[q].isNone} |-> reply[p].offset]]

\* for part in part_offsets: self._offset_dict[part.partition] =
\*   part_offsets[part].offset      (None has no attribute 'offset': raises)
RECURSIVE TimestampLoop(_, _, _)
TimestampLoop(parts, reply, d) ==
  IF parts = {} THEN [raised |-> FALSE, offset_dict |-> d]
  ELSE LET part == SetMin(parts)
       IN IF reply[part].isNone THEN [raised |-> TRUE, offset_dict |-> d]
          ELSE TimestampLoop(parts \ {part}, reply,
                             Put(d, part, reply[part].offset))

\* a resolver that reads the offset map and then drops it
ExplicitLoop_Ignored(keys, json, d) == [raised |-> FALSE, offset_dict |-> d]

\* for part in offset_dict: self._offset_dict[int(part)] = offset_dict[part]
RECURSIVE ExplicitLoop(_, _, _)
ExplicitLoop(keys, json, d) ==
  IF keys = {} THEN [raised |-> FALSE, offset_dict |-> d]
  ELSE LET part == CHOOSE k \in keys : TRUE
           part_id == PyInt(part)
       IN IF ~part_id.ok THEN [raised |-> TRUE, offset_dict |-> d]
          ELSE ExplicitLoop(keys \ {part}, json, Put(d, part_id.val, json[part]))

\* the _offset_dict __init__ leaves, or raised when __init__ does not return
InitOffsetDict(info, reply) ==
  IF ~info.given THEN [raised |-> FALSE, offset_dict |-> EmptyDict]
  ELSE IF IsTimestampInfo(info)
       THEN TimestampLoop(DOMAIN reply, reply, EmptyDict)
       ELSE ExplicitLoop(DOMAIN info.json, info.json, EmptyDict)

\* ---------------------------------------------------------- KafkaInput.restore
NoPath == "None"
CheckpointPath == "model.ckpt"
NoFile == [exists |-> FALSE, json |-> EmptyDict]

\* self._offset_dict = {}
RestoreStart(offset_dict) == EmptyDict

\* a merge test without its 'k not in' half
RestoreTakes_KnownOnly(d, k, v) == k \in DOMAIN d /\ v > d[k]

\* if k not in self._offset_dict or v > self._offset_dict[k]
RestoreTakes(d, k, v) == k \notin DOMAIN d \/ v > d[k]

\* for k in offset_dict: v = offset_dict[k]; k = int(k); merge
RECURSIVE RestoreLoop(_, _, _)
RestoreLoop(keys, json, d) ==
  IF keys = {} THEN d
  ELSE LET key == CHOOSE k \in keys : TRUE
           v == json[key]
           k == PyInt(key).val
       IN RestoreLoop(keys \ {key}, json,
                      IF RestoreTakes(d, k, v) THEN Put(d, k, v) ELSE d)

\* a restore that empties the map before it looks for the sidecar
RestoreOffsets_ResetFirst(offset_dict, checkpoint_path, file) ==
  IF checkpoint_path = NoPath \/ ~file.exists THEN RestoreStart(offset_dict)
  ELSE RestoreLoop(DOMAIN file.json, file.json, RestoreStart(offset_dict))

\* the _offset_dict restore(checkpoint_path) leaves
RestoreOffsets(offset_dict, checkpoint_path, file) ==
  IF checkpoint_path = NoPath THEN offset_dict
  ELSE IF ~file.exists THEN offset_dict
  ELSE RestoreLoop(DOMAIN file.json, file.json, RestoreStart(offset_dict))

\* ------------------------------------------ KafkaInput._parse_csv._parse_offset
\* the message_offset token of the record at offset o of partition p
Token(p, o) == Str(p) \o <<":">> \o Str(o)

\* k,v = kv.split(':'); k = int(k); v = int(v)
ParseToken(kv) ==
  LET fields == Split(kv, ":")
  IN IF Len(fields) # 2 THEN [raised |-> TRUE, k |-> 0, v |-> 0]
     ELSE LET k == PyInt(fields[1])
              v == PyInt(fields[2])
          IN IF k.ok /\ v.ok THEN [raised |-> FALSE, k |-> k.val, v |-> v.val]
             ELSE [raised |-> TRUE, k |-> 0, v |-> 0]

\* a tracker that keeps the offset of the last token it saw
TrackerTakes_Overwrite(d, k, v) == TRUE

\* if k not in self._task_offset_dict or v > self._task_offset_dict[k]
TrackerTakes(d, k, v) == k \notin DOMAIN d \/ v > d[k]

\* a decode worker outside _parse_offset
Idle == [pc |-> "idle", k |-> 0, v |-> 0]

\* a decode worker between two tokens of its batch
InLoop == [pc |-> "loop", k |-> 0, v |-> 0]

\* json.dumps(self._task_offset_dict): what _parse_offset returns when its loop
\* ends in the current state
DataOffset == JsonDumps(_task_offset_dict)

\* tokens that are no 'partition:offset' pair
Malformed == {<<"0">>, <<"0", ":", "1", ":", "2">>, <<"x", ":", "1">>,
              <<"0", ":">>}

\* --------------------------------------------------------- the input's inputs
Offsets == 0..MaxOffset

\* the int-keyed dicts over a set of partitions
Dicts(parts) == UNION {[S -> Offsets] : S \in SUBSET parts}

\* the configurations of offset_info over n partitions
OffsetInfos(n) ==
  {NoInfo}
  \cup {[given |-> TRUE, json |-> JsonDumps(d)] : d \in Dicts(0..(n - 1))}
  \cup {[given |-> TRUE, json |-> [k \in {TimestampKey} |-> 1]]}

\* the answers of the broker to a lookup over n partitions
Replies(n) ==
  [0..(n - 1) -> {NoneValue} \cup {OffsetAndTimestamp(o) : o \in Offsets}]

\* the sidecars a checkpoint of n partitions leaves, or no file
Sidecars(n) ==
  {NoFile} \cup {[exists |-> TRUE, json |-> JsonDumps(d)] : d \in Dicts(0..(n - 1))}

\* the configurations of offset_info under which every partition of n starts
\* at 0: not set, or an explicit map whose entries are all 0
ZeroInfos(n) ==
  {i \in OffsetInfos(n) :
     ~IsTimestampInfo(i) /\ \A k \in DOMAIN i.json : i.json[k] = 0}

\* the sidecars a task can find: none, or the JSON of an offset map over the
\* partitions of the topic and one partition id of two digits
SavedSidecars(n) ==
  {NoFile}
  \cup {[exists |-> TRUE, json |-> JsonDumps(d)] :
          d \in Dicts(0..(n - 1) \cup {MaxSavedPartition})}

mapVars == <<num_parallel_calls, wk, high>>

pipeVars == <<batch_size, next_read, cur_batch, prefetch1, prefetch2,
              undelivered, ckpt_undelivered, restarts>>

vars == <<jobVars, job, envVars, sidecar, objVars, mapVars, pipeVars>>

\* no pipeline has been built
NoPipe ==
  /\ batch_size = 1
  /\ next_read = EmptyDict
  /\ cur_batch = << >>
  /\ prefetch1 = << >>
  /\ prefetch2 = << >>
  /\ undelivered = EmptyDict
  /\ ckpt_undelivered = EmptyDict
  /\ restarts = 0

\* ------------------------------------------------ the job's partition assignment
\* every task of a job builds its input with the default (all zero) offsets
InitAssign ==
  /\ _num_partition \in 1..MaxPartitions
  /\ _task_num \in 1..MaxTasks
  /\ chief_redundant \in BOOLEAN
  /\ _mode \in ModeKeys
  /\ job = [t \in 0..(_task_num - 1) |-> Pending]
  /\ _task_index = 0
  /\ offset_info = NoInfo
  /\ part_offsets = EmptyDict
  /\ sidecar = NoFile
  /\ pc = "new"
  /\ _offset_dict = EmptyDict
  /\ _task_offset_dict = EmptyDict
  /\ task_topics = << >>
  /\ restored = FALSE
  /\ num_parallel_calls = 1
  /\ wk = EmptyDict
  /\ high = EmptyDict
  /\ NoPipe

\* task t runs _build, which calls _get_topics
RunGetTopics(t) ==
  /\ ~job[t].done
  /\ job' = [job EXCEPT ![t] =
       Ran(GetTopics(_num_partition, _task_num, t, chief_redundant, _mode,
                     EmptyDict))]
  /\ UNCHANGED <<jobVars, envVars, sidecar, objVars, mapVars, pipeVars>>

NextAssign == \E t \in DOMAIN job : RunGetTopics(t)

SpecAssign == InitAssign /\ [][NextAssign]_vars

\* ------------------------------------------ one input object: start offsets
\* the process has started; the partition assignment policy of the job is the
\* plain round-robin one here (SpecAssign covers the redundant-leader modes)
Init ==
  /\ _num_partition \in 1..MaxStreamPartitions
  /\ _task_num \in 1..MaxStreamTasks
  /\ _task_index \in 0..(_task_num - 1)
  /\ chief_redundant = FALSE
  /\ _mode = TRAIN
  /\ job = EmptyDict
  /\ offset_info \in OffsetInfos(_num_partition)
  /\ part_offsets \in IF IsTimestampInfo(offset_info)
                      THEN Replies(_num_partition) ELSE {EmptyDict}
  /\ sidecar \in Sidecars(_num_partition)
  /\ pc = "new"
  /\ _offset_dict = EmptyDict
  /\ _task_offset_dict = EmptyDict
  /\ task_topics = << >>
  /\ restored = FALSE
  /\ num_parallel_calls = 1
  /\ wk = EmptyDict
  /\ high = EmptyDict
  /\ NoPipe

\* KafkaInput(...): __init__
Construct ==
  /\ pc = "new"
  /\ LET r == InitOffsetDict(offset_info, part_offsets)
     IN /\ pc' = IF r.raised THEN "init_failed" ELSE "constructed"
        /\ _offset_dict' = IF r.raised THEN EmptyDict ELSE r.offset_dict
  /\ _task_offset_dict' = EmptyDict
  /\ UNCHANGED <<jobVars, job, envVars, sidecar, task_topics, restored, mapVars>>

\* input.restore(checkpoint_path), before the pipeline is built
Restore(checkpoint_path) ==
  /\ pc = "constructed"
  /\ ~restored
  /\ _offset_dict' = RestoreOffsets(_offset_dict, checkpoint_path, sidecar)
  /\ restored' = TRUE
  /\ UNCHANGED <<jobVars, job, envVars, sidecar, pc, _task_offset_dict, task_topics,
                 mapVars>>

\* _build: _get_topics, then the dataset over the topics it returned
Build ==
  /\ pc = "constructed"
  /\ LET r == GetTopics(_num_partition, _task_num, _task_index,
                        chief_redundant, _mode, _offset_dict)
     IN /\ task_topics' = r.topics
        /\ _task_offset_dict' = r.task_offset_dict
        /\ pc' = IF r.raised THEN "build_failed" ELSE "streaming"
  /\ wk' = [w \in 1..num_parallel_calls |-> Idle]
  /\ UNCHANGED <<jobVars, job, envVars, sidecar, _offset_dict, restored,
                 num_parallel_calls, high>>

Next ==
  \/ Construct /\ UNCHANGED pipeVars
  \/ \E checkpoint_path \in {NoPath, CheckpointPath} :
       Restore(checkpoint_path) /\ UNCHANGED pipeVars
  \/ Build /\ UNCHANGED pipeVars

Spec == Init /\ [][Next]_vars

\* ------------------------------------------------- one input object: the tracker
\* a first run (no sidecar yet) with explicit or default start offsets
InitTrack ==
  /\ _num_partition \in 1..MaxStreamPartitions
  /\ _task_num = 1
  /\ _task_index = 0
  /\ chief_redundant = FALSE
  /\ _mode = TRAIN
  /\ job = EmptyDict
  /\ offset_info \in {i \in OffsetInfos(_num_partition) : ~IsTimestampInfo(i)}
  /\ part_offsets = EmptyDict
  /\ sidecar = NoFile
  /\ pc = "new"
  /\ _offset_dict = EmptyDict
  /\ _task_offset_dict = EmptyDict
  /\ task_topics = << >>
  /\ restored = FALSE
  /\ num_parallel_calls = 1
  /\ wk = EmptyDict
  /\ high = EmptyDict
  /\ NoPipe

\* the tokens KafkaDataset attaches to the records it reads: records of the
\* assigned partitions, at or after their start offsets
RecordTokens ==
  UNION {{Token(task_topics[i].part, o) : o \in task_topics[i].offset..MaxOffset} :
           i \in 1..Len(task_topics)}

\* for kv in message_offset: the next token of the batch is split and parsed
Fetch(w, kv) ==
  /\ pc = "streaming"
  /\ wk[w].pc \in {"idle", "loop"}
  /\ LET r == ParseToken(kv)
     IN IF r.raised
        THEN /\ wk' = [wk EXCEPT ![w] = [pc |-> "raised", k |-> 0, v |-> 0]]
             /\ pc' = "decode_failed"
             /\ high' = high
        ELSE /\ wk' = [wk EXCEPT ![w] = [pc |-> "test", k |-> r.k, v |-> r.v]]
             /\ pc' = pc
             /\ high' = Put(high, r.k, Max2(Get(high, r.k, r.v), r.v))
  /\ UNCHANGED <<jobVars, job, envVars, sidecar, _offset_dict, _task_offset_dict,
                 task_topics, restored, num_parallel_calls>>

\* the test of the if statement
Test(w) ==
  /\ pc = "streaming"
  /\ wk[w].pc = "test"
  /\ wk' = [wk EXCEPT ![w] =
              IF TrackerTakes(_task_offset_dict, wk[w].k, wk[w].v)
              THEN [pc |-> "write", k |-> wk[w].k, v |-> wk[w].v]
              ELSE InLoop]
  /\ UNCHANGED <<jobVars, job, envVars, sidecar, objVars, num_parallel_calls,
                 high>>

\* self._task_offset_dict[k] = v
Write(w) ==
  /\ pc = "streaming"
  /\ wk[w].pc = "write"
  /\ _task_offset_dict' = Put(_task_offset_dict, wk[w].k, wk[w].v)
  /\ wk' = [wk EXCEPT ![w] = InLoop]
  /\ UNCHANGED <<jobVars, job, envVars, sidecar, pc, _offset_dict, task_topics,
                 restored, num_parallel_calls, high>>

\* the for loop is over: return json.dumps(self._task_offset_dict)
Return(w) ==
  /\ pc = "streaming"
  /\ wk[w].pc = "loop"
  /\ wk' = [wk EXCEPT ![w] = Idle]
  /\ UNCHANGED <<jobVars, job, envVars, sidecar, objVars, num_parallel_calls,
                 high>>

NextTrack ==
  \/ Construct /\ UNCHANGED pipeVars
  \/ \E checkpoint_path \in {NoPath, CheckpointPath} :
       Restore(checkpoint_path) /\ UNCHANGED pipeVars
  \/ Build /\ UNCHANGED pipeVars
  \/ \E w \in DOMAIN wk : \E kv \in RecordTokens \cup Malformed :
       Fetch(w, kv) /\ UNCHANGED pipeVars
  \/ \E w \in DOMAIN wk : Test(w) /\ UNCHANGED pipeVars
  \/ \E w \in DOMAIN wk : Write(w) /\ UNCHANGED pipeVars
  \/ \E w \in DOMAIN wk : Return(w) /\ UNCHANGED pipeVars

SpecTrack == InitTrack /\ [][NextTrack]_vars

\* --------------------------------------- several decode workers on one tracker

\* a first run from the default start offsets, with dataset.map running
\* _parse_csv on several workers
InitPar ==
  /\ _num_partition \in 1..MaxStreamPartitions
  /\ _task_num = 1
  /\ _task_index = 0
  /\ chief_redundant = FALSE
  /\ _mode = TRAIN
  /\ job = EmptyDict
  /\ offset_info = NoInfo
  /\ part_offsets = EmptyDict
  /\ sidecar = NoFile
  /\ pc = "new"
  /\ _offset_dict = EmptyDict
  /\ _task_offset_dict = EmptyDict
  /\ task_topics = << >>
  /\ restored = FALSE
  /\ num_parallel_calls \in 2..MaxParallelCalls
  /\ wk = EmptyDict
  /\ high = EmptyDict
  /\ NoPipe

SpecPar == InitPar /\ [][NextTrack]_vars

\* ------------------------------- the dataset pipeline of _build and restarts
\* a first run of a single task from the default start offsets
InitPipe ==
  /\ _num_partition \in 1..MaxStreamPartitions
  /\ _task_num = 1
  /\ _task_index = 0
  /\ chief_redundant = FALSE
  /\ _mode = TRAIN
  /\ job = EmptyDict
  /\ offset_info = NoInfo
  /\ part_offsets = EmptyDict
  /\ sidecar = NoFile
  /\ pc = "new"
  /\ _offset_dict = EmptyDict
  /\ _task_offset_dict = EmptyDict
  /\ task_topics = << >>
  /\ restored = FALSE
  /\ num_parallel_calls = 1
  /\ wk = EmptyDict
  /\ high = EmptyDict
  /\ batch_size \in 1..MaxBatch
  /\ next_read = EmptyDict
  /\ cur_batch = << >>
  /\ prefetch1 = << >>
  /\ prefetch2 = << >>
  /\ undelivered = EmptyDict
  /\ ckpt_undelivered = EmptyDict
  /\ restarts = 0

\* _build after restore: KafkaDataset is opened on the topics list, each
\* partition at its start offset
BuildPipe ==
  /\ restored
  /\ Build
  /\ next_read' = [p \in Parts(task_topics') |-> Get(_offset_dict, p, 0)]
  /\ undelivered' = [p \in Parts(task_topics') |-> Get(_offset_dict, p, 0)]
  /\ cur_batch' = << >>
  /\ prefetch1' = << >>
  /\ prefetch2' = << >>
  /\ UNCHANGED <<batch_size, ckpt_undelivered, restarts>>

\* KafkaDataset reads the next record of partition p into the batch, and
\* _parse_offset parses its token
ReadRecord(w, p) ==
  /\ Len(cur_batch) < batch_size
  /\ next_read[p] <= MaxOffset
  /\ Fetch(w, Token(p, next_read[p]))
  /\ cur_batch' = Append(cur_batch, [part |-> p, offset |-> next_read[p]])
  /\ next_read' = [next_read EXCEPT ![p] = @ + 1]
  /\ UNCHANGED <<batch_size, prefetch1, prefetch2, undelivered,
                 ckpt_undelivered, restarts>>

\* the decoded batch enters dataset.prefetch; a full buffer holds it back
EmitBatch(w) ==
  /\ Len(cur_batch) = batch_size
  /\ Len(prefetch1) < PrefetchSize
  /\ Return(w)
  /\ prefetch1' = Append(prefetch1, cur_batch)
  /\ cur_batch' = << >>
  /\ UNCHANGED <<batch_size, next_read, prefetch2, undelivered,
                 ckpt_undelivered, restarts>>

\* dataset.map(_preprocess) moves a batch into the second dataset.prefetch
Preprocess ==
  /\ pc = "streaming"
  /\ Len(prefetch1) > 0
  /\ Len(prefetch2) < PrefetchSize
  /\ prefetch2' = Append(prefetch2, Head(prefetch1))
  /\ prefetch1' = Tail(prefetch1)
  /\ UNCHANGED <<jobVars, job, envVars, sidecar, objVars, mapVars, batch_size,
                 next_read, cur_batch, undelivered, ckpt_undelivered, restarts>>

\* the earliest records not delivered once batch b has been delivered
AfterBatch(und, b) ==
  [p \in DOMAIN und |->
     SetMax({und[p]} \cup {b[i].offset + 1 : i \in {j \in 1..Len(b) : b[j].part = p}})]

\* the training loop takes the next (features, labels) batch
Deliver ==
  /\ pc = "streaming"
  /\ Len(prefetch2) > 0
  /\ undelivered' = AfterBatch(undelivered, Head(prefetch2))
  /\ prefetch2' = Tail(prefetch2)
  /\ UNCHANGED <<jobVars, job, envVars, sidecar, objVars, mapVars, batch_size,
                 next_read, cur_batch, prefetch1, ckpt_undelivered, restarts>>

\* CheckpointStore.save: the snapshot of the tracker is written as the sidecar
SaveOffsets(task_offset_dict) ==
  [exists |-> TRUE, json |-> JsonDumps(task_offset_dict)]

\* a checkpoint boundary, while the pipeline keeps streaming
Checkpoint ==
  /\ pc = "streaming"
  /\ sidecar' = SaveOffsets(_task_offset_dict)
  /\ ckpt_undelivered' = undelivered
  /\ UNCHANGED <<jobVars, job, envVars, objVars, mapVars, batch_size, next_read,
                 cur_batch, prefetch1, prefetch2, undelivered, restarts>>

\* the process stops after a checkpoint and a new process starts
Restart ==
  /\ pc = "streaming"
  /\ sidecar.exists
  /\ restarts < MaxRestarts
  /\ restarts' = restarts + 1
  /\ pc' = "new"
  /\ _offset_dict' = EmptyDict
  /\ _task_offset_dict' = EmptyDict
  /\ task_topics' = << >>
  /\ restored' = FALSE
  /\ wk' = EmptyDict
  /\ high' = EmptyDict
  /\ next_read' = EmptyDict
  /\ cur_batch' = << >>
  /\ prefetch1' = << >>
  /\ prefetch2' = << >>
  /\ undelivered' = EmptyDict
  /\ UNCHANGED <<jobVars, job, envVars, sidecar, num_parallel_calls, batch_size,
                 ckpt_undelivered>>

NextPipe ==
  \/ Construct /\ UNCHANGED pipeVars
  \/ Restore(CheckpointPath) /\ UNCHANGED pipeVars
  \/ BuildPipe
  \/ \E w \in DOMAIN wk : \E p \in DOMAIN next_read : ReadRecord(w, p)
  \/ \E w \in DOMAIN wk : Test(w) /\ UNCHANGED pipeVars
  \/ \E w \in DOMAIN wk : Write(w) /\ UNCHANGED pipeVars
  \/ \E w \in DOMAIN wk : EmitBatch(w)
  \/ Preprocess
  \/ Deliver
  \/ Checkpoint
  \/ Restart

SpecPipe == InitPipe /\ [][NextPipe]_vars

\* ------------------------------------ one input object: the pipeline rebuilt
\* no decode worker is inside _parse_offset
NoCallRunning == \A w \in DOMAIN wk : wk[w].pc = "idle"

\* the estimator calls the input_fn again on the same input object (a new
\* train or evaluate call of the same process): _build runs _get_topics again
Rebuild ==
  /\ pc = "streaming"
  /\ NoCallRunning
  /\ LET r == GetTopics(_num_partition, _task_num, _task_index,
                        chief_redundant, _mode, _offset_dict)
     IN /\ task_topics' = r.topics
        /\ _task_offset_dict' = r.task_offset_dict
        /\ pc' = IF r.raised THEN "build_failed" ELSE "streaming"
  /\ wk' = [w \in 1..num_parallel_calls |-> Idle]
  /\ UNCHANGED <<jobVars, job, envVars, sidecar, _offset_dict, restored,
                 num_parallel_calls, high>>

NextRebuild ==
  \/ Construct /\ UNCHANGED pipeVars
  \/ \E checkpoint_path \in {NoPath, CheckpointPath} :
       Restore(checkpoint_path) /\ UNCHANGED pipeVars
  \/ Build /\ UNCHANGED pipeVars
  \/ \E w \in DOMAIN wk : \E kv \in RecordTokens \cup Malformed :
       Fetch(w, kv) /\ UNCHANGED pipeVars
  \/ \E w \in DOMAIN wk : Test(w) /\ UNCHANGED pipeVars
  \/ \E w \in DOMAIN wk : Write(w) /\ UNCHANGED pipeVars
  \/ \E w \in DOMAIN wk : Return(w) /\ UNCHANGED pipeVars
  \/ Rebuild /\ UNCHANGED pipeVars

SpecRebuild == InitTrack /\ [][NextRebuild]_vars

\* ------------------------------------- one input object: resuming a checkpoint
\* a process that starts from offset 0 everywhere and finds the sidecar of an
\* earlier run (or none)
InitResume ==
  /\ _num_partition \in 1..MaxStreamPartitions
  /\ _task_num \in 1..MaxStreamTasks
  /\ _task_index \in 0..(_task_num - 1)
  /\ chief_redundant = FALSE
  /\ _mode = TRAIN
  /\ job = EmptyDict
  /\ offset_info \in ZeroInfos(_num_partition)
  /\ part_offsets = EmptyDict
  /\ sidecar \in SavedSidecars(_num_partition)
  /\ pc = "new"
  /\ _offset_dict = EmptyDict
  /\ _task_offset_dict = EmptyDict
  /\ task_topics = << >>
  /\ restored = FALSE
  /\ num_parallel_calls = 1
  /\ wk = EmptyDict
  /\ high = EmptyDict
  /\ NoPipe

\* the estimator restores the input from the checkpoint it found, then builds
NextResume ==
  \/ Construct /\ UNCHANGED pipeVars
  \/ Restore(CheckpointPath) /\ UNCHANGED pipeVars
  \/ Build /\ UNCHANGED pipeVars

SpecResume == InitResume /\ [][NextResume]_vars

\* ------------------------------ one task over restarts: the checkpoint cycle
\* a first run of a single task from the default start offsets, no sidecar yet
InitCycle ==
  /\ _num_partition \in 1..MaxStreamPartitions
  /\ _task_num = 1
  /\ _task_index = 0
  /\ chief_redundant = FALSE
  /\ _mode = TRAIN
  /\ job = EmptyDict
  /\ offset_info = NoInfo
  /\ part_offsets = EmptyDict
  /\ sidecar = NoFile
  /\ pc = "new"
  /\ _offset_dict = EmptyDict
  /\ _task_offset_dict = EmptyDict
  /\ task_topics = << >>
  /\ restored = FALSE
  /\ num_parallel_calls = 1
  /\ wk = EmptyDict
  /\ high = EmptyDict
  /\ NoPipe

\* _parse_offset on the one decode worker, for the well-formed token kv of a
\* record: split, int, test and write in one step (with a single worker no
\* other write to the tracker falls between them)
ParseOffset(kv) ==
  /\ pc = "streaming"
  /\ NoCallRunning
  /\ LET r == ParseToken(kv)
     IN /\ ~r.raised
        /\ _task_offset_dict' =
             IF TrackerTakes(_task_offset_dict, r.k, r.v)
             THEN Put(_task_offset_dict, r.k, r.v)
             ELSE _task_offset_dict
        /\ high' = Put(high, r.k, Max2(Get(high, r.k, r.v), r.v))
  /\ UNCHANGED <<jobVars, job, envVars, sidecar, pc, _offset_dict, task_topics,
                 restored, num_parallel_calls, wk>>

\* each process restores the latest sidecar, builds, decodes records of its
\* partitions (at or after their start offsets, in any order, which includes
\* the broker's per-partition order), and the tracker is saved at checkpoint
\* boundaries; after a checkpoint the process may stop and a new one start
NextCycle ==
  \/ Construct /\ UNCHANGED pipeVars
  \/ Restore(CheckpointPath) /\ UNCHANGED pipeVars
  \/ restored /\ Build /\ UNCHANGED pipeVars
  \/ \E kv \in RecordTokens : ParseOffset(kv) /\ UNCHANGED pipeVars
  \/ Checkpoint
  \/ Restart

SpecCycle == InitCycle /\ [][NextCycle]_vars

\* ===================================================================== claims
AllParts == 0..(_num_partition - 1)
Redundant == chief_redundant /\ _mode = TRAIN
AllRan == \A t \in DOMAIN job : job[t].done

\* C1: without redundant-leader mode (or outside training), with
\* 1 <= task_num <= num_partitions, task t receives exactly the partitions p
\* with p mod task_num = t, the sets of different tasks are disjoint, and once
\* every task has run their union is {0, .., num_partitions-1}.
C1_RoundRobinPartition ==
  (~Redundant /\ _task_num <= _num_partition) =>
    /\ \A t \in DOMAIN job : job[t].done =>
         /\ ~job[t].raised
         /\ Parts(job[t].topics) = {p \in AllParts : p % _task_num = t}
    /\ \A t \in DOMAIN job : \A u \in DOMAIN job :
         (t # u /\ job[t].done /\ job[u].done) =>
           Parts(job[t].topics) \cap Parts(job[u].topics) = {}
    /\ AllRan => UNION {Parts(job[t].topics) : t \in DOMAIN job} = AllParts

\* 4 partitions, 2 tasks, no redundancy: task 0 got {0,2}, task 1 got {1,3}
C1_Witness ==
  /\ ~Redundant /\ _num_partition = 4 /\ _task_num = 2 /\ AllRan
  /\ Parts(job[0].topics) = {0, 2}
  /\ Parts(job[1].topics) = {1, 3}

\* C6 as stated: in redundant-leader mode during training with task_num >= 2,
\* the set of partitions assigned to task 0 is empty.
C6_Original ==
  (Redundant /\ _task_num >= 2 /\ job[0].done) => Parts(job[0].topics) = {}

\* C6 amended: in redundant-leader mode during training with task_num >= 2,
\* task 0 is clamped to effective index 0: _get_topics returns normally and
\* assigns it {p : p mod (task_num-1) = 0}, a non-empty set, the same set task 1
\* is assigned.
C6_LeaderSharesTaskOne ==
  (Redundant /\ _task_num >= 2 /\ job[0].done) =>
    /\ ~job[0].raised
    /\ Parts(job[0].topics) = {p \in AllParts : p % (_task_num - 1) = 0}
    /\ Parts(job[0].topics) # {}
    /\ job[1].done => job[1].topics = job[0].topics

C6_Witness ==
  /\ Redundant /\ _task_num = 3 /\ _num_partition = 4
  /\ job[0].done /\ job[1].done
  /\ Parts(job[0].topics) = {0, 2}

\* C7: in redundant-leader mode during training, every task t with
\* 1 <= t < task_num is assigned {p : p mod (task_num-1) = t-1}, which is the
\* non-redundant assignment of task index t-1 among task_num-1 tasks.
C7_ShiftedAssignment ==
  Redundant =>
    \A t \in (DOMAIN job) \ {0} : job[t].done =>
      /\ Parts(job[t].topics) = {p \in AllParts : p % (_task_num - 1) = t - 1}
      /\ job[t].topics =
           GetTopics(_num_partition, _task_num - 1, t - 1, FALSE, _mode,
                     EmptyDict).topics

C7_Witness ==
  /\ Redundant /\ _task_num = 3 /\ _num_partition = 4
  /\ job[2].done /\ Parts(job[2].topics) = {1, 3}

\* C10: _get_topics fails whenever the partition set of the task is empty (in
\* particular when the effective task index is >= num_partitions), so a task
\* whose _get_topics returned normally owns at least one partition.
C10_EmptyAssignmentFails ==
  \A t \in DOMAIN job : job[t].done =>
    /\ Parts(job[t].topics) = {} => job[t].raised
    /\ EffTaskIndex(t, chief_redundant, _mode) >= _num_partition => job[t].raised
    /\ ~job[t].raised => Cardinality(Parts(job[t].topics)) >= 1

C10_Witness ==
  \E t \in DOMAIN job :
    /\ job[t].done /\ job[t].raised
    /\ EffTaskIndex(t, chief_redundant, _mode) >= _num_partition

\* the _offset_dict the resolver (__init__) produced for this configuration
ResolverMap == InitOffsetDict(offset_info, part_offsets).offset_dict

\* the offset _get_topics starts partition p from
StartOffset(p) == Get(_offset_dict, p, 0)

\* C2 as stated: restore never lowers a start offset already in the in-memory
\* map: after restore(checkpoint_path) the effective start offset of every
\* partition p is >= prior.get(p, 0), prior being the resolver's map.
C2_RestoreNeverLowers ==
  (restored /\ pc # "init_failed") =>
    \A p \in AllParts : StartOffset(p) >= Get(ResolverMap, p, 0)

\* C9: in timestamp mode, when the broker has no offset for some partition,
\* construction fails: the object is never constructed, so no partition is
\* given a default start offset and nothing streams.
C9_MissingTimestampOffsetIsFatal ==
  (IsTimestampInfo(offset_info) /\ \E p \in DOMAIN part_offsets : part_offsets[p].isNone)
    => pc \in {"new", "init_failed"}

C9_Witness ==
  /\ IsTimestampInfo(offset_info)
  /\ \E p \in DOMAIN part_offsets : part_offsets[p].isNone
  /\ \E p \in DOMAIN part_offsets : ~part_offsets[p].isNone
  /\ pc = "init_failed"

\* no decode worker is inside _parse_offset
Quiet == \A w \in DOMAIN wk : wk[w].pc = "idle"

\* C4 as stated: with several decode workers running _parse_offset on the
\* shared _task_offset_dict, no update is lost: once all workers have finished,
\* the mark of every partition equals the highest offset any worker observed
\* for it.
C4_NoLostUpdate ==
  (pc = "streaming" /\ Quiet) =>
    \A p \in DOMAIN high :
      p \in DOMAIN _task_offset_dict /\ _task_offset_dict[p] = high[p]

\* C5: after the tracker has observed any sequence of (partition, offset)
\* pairs, one _parse_offset call at a time, the tracker maps every observed
\* partition to the highest offset observed for it, and so does the snapshot
\* _parse_offset returns.
C5_SnapshotIsMaxObserved ==
  (pc = "streaming" /\ \A w \in DOMAIN wk : wk[w].pc \in {"idle", "loop"}) =>
    /\ \A p \in DOMAIN high :
         p \in DOMAIN _task_offset_dict /\ _task_offset_dict[p] = high[p]
    /\ \A p \in DOMAIN high :
         Str(p) \in DOMAIN DataOffset /\ DataOffset[Str(p)] = high[p]

\* records of two partitions have been observed, one of them past its start
\* offset, and the call is about to return its snapshot
C5_Witness ==
  /\ pc = "streaming"
  /\ \E w \in DOMAIN wk : wk[w].pc = "loop"
  /\ \E p \in DOMAIN high :
       high[p] > StartOffset(p) /\ DataOffset[Str(p)] = high[p]
  /\ Cardinality(DOMAIN high) >= 2

\* C8 as stated: a malformed offset-metadata token is skipped and the decode
\* step does not raise: no _parse_offset call ends in an exception.
C8_MalformedTokenSkipped ==
  /\ pc # "decode_failed"
  /\ \A w \in DOMAIN wk : wk[w].pc # "raised"

\* C3 as stated: after a checkpoint of the tracker map, a stop, and restore
\* followed by build in a new process, the start offset of every assigned
\* partition is <= the offset of its earliest record that had not been
\* delivered to the training loop when the checkpoint was taken, so that no
\* undelivered record is skipped.
C3_NoRecordLost ==
  (restarts > 0 /\ pc = "streaming") =>
    \A i \in 1..Len(task_topics) :
      task_topics[i].part \in DOMAIN ckpt_undelivered =>
        task_topics[i].offset <= ckpt_undelivered[task_topics[i].part]


\* the offset the explicit map of offset_info configures for partition p, 0
\* when the map has no entry for p (offset_info not set: the map is empty)
ConfiguredOffset(p) ==
  IF Str(p) \in DOMAIN offset_info.json THEN offset_info.json[Str(p)] ELSE 0

\* C11: in explicit-map mode the start offset of every assigned partition p is
\* the configured offset for p when the map has an entry for p and 0 otherwise,
\* and with no offset config every assigned partition starts at 0; the tracker
\* is seeded with the same offsets. (No checkpoint is restored over them.)
C11_ExplicitStartOffsets ==
  (pc = "streaming" /\ ~IsTimestampInfo(offset_info)
     /\ (~restored \/ ~sidecar.exists)) =>
    /\ \A i \in 1..Len(task_topics) :
         task_topics[i].offset = ConfiguredOffset(task_topics[i].part)
    /\ \A p \in Parts(task_topics) :
         _task_offset_dict[p] = ConfiguredOffset(p)

\* the map has an entry for partition 0 and none for partition 1, both are
\* assigned: partition 0 starts at the configured offset, partition 1 at 0
C11_Witness ==
  /\ pc = "streaming" /\ ~restored
  /\ offset_info.given /\ ~IsTimestampInfo(offset_info)
  /\ DOMAIN offset_info.json = {Str(0)}
  /\ task_topics = <<[part |-> 0, offset |-> MaxOffset],
                     [part |-> 1, offset |-> 0]>>

\* C13: restore called with no checkpoint path, or with a path whose '.offset'
\* sidecar does not exist, is not an error: it returns with the object still
\* usable, adds nothing to the offset map, and leaves the start offsets the
\* resolver produced as they were.
C13_MissingSidecarIsNoOp ==
  [][\A checkpoint_path \in {NoPath, CheckpointPath} :
       (Restore(checkpoint_path)
          /\ (checkpoint_path = NoPath \/ ~sidecar.exists)) =>
         /\ pc' = "constructed"
         /\ _offset_dict' = _offset_dict
         /\ _offset_dict' = ResolverMap
         /\ \A p \in AllParts :
              Get(_offset_dict', p, 0) = Get(ResolverMap, p, 0)]_vars

\* restore found no sidecar and the non-empty map of the resolver is intact
C13_Witness ==
  /\ restored /\ ~sidecar.exists /\ pc = "constructed"
  /\ ResolverMap # EmptyDict
  /\ _offset_dict = ResolverMap
  /\ \E p \in AllParts : StartOffset(p) > 0

\* the resolver yields offset 0 for every partition
ResolverZero == \A p \in AllParts : Get(ResolverMap, p, 0) = 0

\* the offset the sidecar holds for partition p, 0 when it has no entry for p
SavedOffset(p) ==
  IF Str(p) \in DOMAIN sidecar.json THEN sidecar.json[Str(p)] ELSE 0

\* C12: when the resolver yields offset 0 for every partition and a sidecar
\* holding map m exists, after restore followed by build the start offset of
\* each assigned partition p is m[p] if p is in m and 0 otherwise.
C12_RestoredStartOffsets ==
  (pc = "streaming" /\ restored /\ sidecar.exists /\ ResolverZero) =>
    \A i \in 1..Len(task_topics) :
      task_topics[i].offset = SavedOffset(task_topics[i].part)

\* the sidecar holds partition 0 only, the resolver gave {0: 0, 1: 0}: after
\* restore and build partition 0 starts at the saved offset, partition 1 at 0
C12_Witness ==
  /\ pc = "streaming" /\ restored /\ sidecar.exists
  /\ ResolverMap = [p \in 0..1 |-> 0]
  /\ sidecar.json = JsonDumps([p \in {0} |-> MaxOffset])
  /\ task_topics = <<[part |-> 0, offset |-> MaxOffset],
                     [part |-> 1, offset |-> 0]>>

\* C14: checkpoint round trip: for any offset map m, with m written as the JSON
\* sidecar (decimal string of the partition id to offset), restore on an input
\* whose prior offset map is empty leaves an in-memory map equal to m, its
\* keys integers again.
C14_SidecarRoundTrip ==
  (restored /\ sidecar.exists /\ ResolverMap = EmptyDict) =>
    \A S \in SUBSET (AllParts \cup {MaxSavedPartition}) :
      DOMAIN sidecar.json = {Str(p) : p \in S} =>
        \A m \in [S -> Offsets] :
          sidecar.json = JsonDumps(m) => _offset_dict = m

\* a map with a one-digit and a two-digit partition id came back
C14_Witness ==
  /\ restored /\ sidecar.exists /\ ResolverMap = EmptyDict
  /\ sidecar.json = JsonDumps(_offset_dict)
  /\ DOMAIN _offset_dict = {0, MaxSavedPartition}
  /\ _offset_dict[0] = 1
  /\ _offset_dict[MaxSavedPartition] = MaxOffset

\* C15: coordinator exclusion applies only in training: with chief_redundant
\* set and the mode EVAL or PREDICT, the assignment of every task t is the
\* non-redundant one, {p : p mod task_num = t}, computed with the unshifted
\* task index and the full task count.
C15_ExclusionOnlyInTraining ==
  (chief_redundant /\ _mode \in {EVAL, PREDICT}) =>
    \A t \in DOMAIN job : job[t].done =>
      /\ Parts(job[t].topics) = {p \in AllParts : p % _task_num = t}
      /\ job[t].topics =
           GetTopics(_num_partition, _task_num, t, FALSE, _mode,
                     EmptyDict).topics

\* chief_redundant in evaluation, 4 partitions, 2 tasks: task 0 got {0,2} and
\* task 1 got {1,3}
C15_Witness ==
  /\ chief_redundant /\ _mode = EVAL
  /\ _num_partition = 4 /\ _task_num = 2 /\ AllRan
  /\ Parts(job[0].topics) = {0, 2}
  /\ Parts(job[1].topics) = {1, 3}

\* C16 as stated: within one process, over any sequence of record observations
\* (_parse_offset) and pipeline builds and rebuilds (_build / _get_topics) on
\* the same input object, the tracker's mark of every partition never
\* decreases from one state to the next.
C16_MarkNeverDecreases ==
  [][\A p \in DOMAIN _task_offset_dict :
       /\ p \in DOMAIN _task_offset_dict'
       /\ _task_offset_dict'[p] >= _task_offset_dict[p]]_vars

\* C17: checkpointed progress never regresses across restarts: over any
\* sequence of cycles (restore from the latest checkpoint, build, observe
\* records, snapshot the tracker as the next checkpoint), every checkpoint
\* that replaces an earlier one holds every assigned partition, at an offset
\* >= its offset in the checkpoint it replaces, partitions without a consumed
\* record included.
C17_CheckpointNeverRegresses ==
  [][(sidecar.exists /\ sidecar' # sidecar) =>
       \A p \in Parts(task_topics) :
         /\ Str(p) \in DOMAIN sidecar'.json
         /\ Str(p) \in DOMAIN sidecar.json =>
              sidecar'.json[Str(p)] >= sidecar.json[Str(p)]]_vars

\* after a restart a new checkpoint has been written: one partition has moved
\* past the restored offset, another had no record consumed in this process
\* and keeps the offset of the checkpoint that was restored
C17_Witness ==
  /\ restarts > 0 /\ pc = "streaming"
  /\ sidecar.json = JsonDumps(_task_offset_dict)
  /\ \E p \in DOMAIN _task_offset_dict :
       _task_offset_dict[p] > Get(_offset_dict, p, 0)
  /\ \E q \in DOMAIN _task_offset_dict :
       /\ q \notin DOMAIN high
       /\ Get(_offset_dict, q, 0) > 0
       /\ _task_offset_dict[q] = _offset_dict[q]

====
